---- MODULE Spec2Model ----
(***************************************************************************)
(* Model of the iRacing OAuth2 token manager (src/oauth.js).               *)
(*                                                                         *)
(* The module-level token storage is the shared state.  Every exported     *)
(* operation is an async function that runs synchronously up to its next   *)
(* network await; an action of this model is one such run: the start of a  *)
(* call up to the fetch it issues, or the delivery of a response up to the *)
(* next fetch or to the completion of the call.  Several calls may be      *)
(* pending at once (one slot per call); the clock advances in between.     *)
(***************************************************************************)
EXTENDS Integers, FiniteSets, Sequences, TLC

\* ---------------------------------------------------------------- bounds
NumCalls == 2          \* call slots: calls that may be pending at the same time
MaxCalls == 3          \* calls made in one behaviour
MaxTicks == 2          \* clock advances in one behaviour
MaxGrants == 2         \* successful grant responses the server issues
TickMs == 1000         \* milliseconds the clock advances per tick
StartTime == 100000    \* Date.now() when the module is loaded
MaxLen == 2            \* length of the secrets and identifiers that are masked

\* ------------------------------------------------------ program constants
Buffer == 30000        \* the 30 second safety buffer, in milliseconds
MsPerSec == 1000       \* expires_in is in seconds, Date.now() in milliseconds

\* -------------------------------------------------------------- JS values
null == -1             \* initial value of the token storage
undefined == -2        \* a field the JSON body does not have
NaN == -3              \* Date.now() + undefined * 1000

\* JS truthiness of a token or a timestamp
Truthy(v) == v \notin {null, undefined, NaN, 0}

Calls == 1..NumCalls

\* --------------------------------------------------------- the environment
RequiredVars == {"IR_OAUTH_SECRET", "IR_USERNAME", "IR_PASSWORD"}

\* ------------------------------------------------- what the server answers
noHeader == "none"     \* response.headers.get(..) returning null

NoData == [access_token |-> undefined, refresh_token |-> undefined,
           expires_in |-> undefined, refresh_token_expires_in |-> undefined]

Data(a, r, e, re) == [access_token |-> a, refresh_token |-> r,
                      expires_in |-> e, refresh_token_expires_in |-> re]

\* JSON bodies of the n-th grant: the tokens are fresh; lifetimes in seconds
GrantData(n) ==
    { Data(n, n, 31, 32), Data(n, n, 0, 32), Data(n, n, 31, undefined),
      Data(n, n, 31, 0), Data(undefined, n, 31, 32), Data(n, n, undefined, 32),
      Data(n, undefined, 31, 32) }

Resp(arrived, status, marker, retryAfter, decodable, data) ==
    [arrived |-> arrived, status |-> status, marker |-> marker,
     retryAfter |-> retryAfter, decodable |-> decodable, data |-> data]

\* fetch() rejected: no response at all
TransportError == Resp(FALSE, 0, FALSE, noHeader, FALSE, NoData)

\* non-2xx responses; marker: the body contains "rate limit exceeded"
FailResponses ==
    { Resp(TRUE, 400, FALSE, "120", FALSE, NoData),
      Resp(TRUE, 400, TRUE, noHeader, FALSE, NoData),
      Resp(TRUE, 401, TRUE, "120", FALSE, NoData),
      Resp(TRUE, 401, FALSE, noHeader, FALSE, NoData),
      Resp(TRUE, 500, FALSE, noHeader, FALSE, NoData),
      Resp(TRUE, 500, FALSE, "120", FALSE, NoData) }

\* a 200 response whose body response.json() cannot decode
UndecodableResponse == Resp(TRUE, 200, FALSE, noHeader, FALSE, NoData)

GrantResponses(n) ==
    { Resp(TRUE, 200, FALSE, noHeader, TRUE, d) : d \in GrantData(n) }

NoResponse == Resp(FALSE, -1, FALSE, noHeader, FALSE, NoData)

VARIABLES
    accessToken,            \* let accessToken
    refreshToken,           \* let refreshToken
    tokenExpiresAt,         \* let tokenExpiresAt
    refreshTokenExpiresAt,  \* let refreshTokenExpiresAt
    now,                    \* Date.now()
    env,                    \* the variables of process.env that are set
    calls,                  \* the pending calls, per slot
    issued,                 \* grants the server has issued so far
    started,                \* calls made so far
    retired,                \* refresh tokens a successful refresh has replaced
    masked,                 \* the last call of maskSecret: arguments and result
    carried,                \* refresh tokens that refresh exchanges have carried
    event                   \* what the last step did

tokenState == <<accessToken, refreshToken, tokenExpiresAt, refreshTokenExpiresAt>>
vars == <<accessToken, refreshToken, tokenExpiresAt, refreshTokenExpiresAt,
          now, env, calls, issued, started, retired, masked, carried, event>>

\* ------------------------------------------------------------ maskSecret
\* strings are sequences of characters
Alphabet == {"a", "A", " "}
Strings == UNION { [1..k -> Alphabet] : k \in 0..MaxLen }

\* String.prototype.toLowerCase
ToLowerCase(s) == [i \in 1..Len(s) |-> IF s[i] = "A" THEN "a" ELSE s[i]]

RECURSIVE TrimStart(_)
TrimStart(s) == IF s # <<>> /\ Head(s) = " " THEN TrimStart(Tail(s)) ELSE s

RECURSIVE TrimEnd(_)
TrimEnd(s) ==
    IF s # <<>> /\ s[Len(s)] = " " THEN TrimEnd(SubSeq(s, 1, Len(s) - 1)) ELSE s

\* String.prototype.trim
Trim(s) == TrimEnd(TrimStart(s))

\* the character codes of a string
Bytes(s) == [i \in 1..Len(s) |-> CASE s[i] = "a" -> 97 [] s[i] = "A" -> 65 [] OTHER -> 32]

\* line 27: the SHA-256 digest in base64; no two inputs of the bounded set
\* collide, the digest stands for the bytes that were hashed
Sha256Base64(s) == <<"sha256">> \o Bytes(s)

\* maskSecret with the identifier used as it is given
maskSecretRawId(secret, id) == Sha256Base64(secret \o id)

\* maskSecret, lines 24-29
maskSecret(secret, id) ==
    LET normalizedId == ToLowerCase(Trim(id))
        combined == secret \o normalizedId
    IN  Sha256Base64(combined)

NoMask == [secret |-> <<>>, id |-> <<>>, digest |-> <<>>, called |-> FALSE]

\* ------------------------------------------------------------ call records
NoError == [class |-> "none", waitTime |-> "", status |-> 0]
Err(c, w, s) == [class |-> c, waitTime |-> w, status |-> s]

NoHeaders == [k \in {} |-> <<"Basic", 0>>]
\* options.headers as the caller passes them to authenticatedFetch
CallerHeaders ==
    { [k \in {"Accept", "Authorization"} |->
          IF k = "Accept" THEN <<"json", 0>> ELSE <<"Basic", 0>>] }

\* a call: the operation, where it waits, the exchanges it has issued, whether
\* its refresh exchange ended in a 400/401 that is no rate limit (plainFail),
\* how it ended, and the headers it was given and those it sent
IdleCall == [op |-> "none", pc |-> "idle", nRefresh |-> 0, nInitial |-> 0,
             nApi |-> 0, plainFail |-> 0,
             outcome |-> "none", value |-> null, error |-> NoError,
             headers |-> NoHeaders, request |-> NoHeaders]

NewCall(op, h) == [IdleCall EXCEPT !.op = op, !.headers = h]

\* a step: the action, the call it belongs to, the response it processed, the
\* error the code made of it, the call record after it, whether
\* getValidAccessToken returned in it (ret) and what, the exchange it issued
\* (none, refresh, initial, api), the refresh token that exchange carried and
\* whether an earlier refresh exchange has carried the same (resent)
NoEvent == [kind |-> "none", call |-> 0, resp |-> NoResponse, class |-> NoError,
            rec |-> IdleCall, ret |-> FALSE, token |-> null,
            issue |-> "none", sent |-> null, resent |-> FALSE]

\* ------------------------------------------------------------ the code
\* the buffer comparison made with <= for <
CacheValidLe ==
    Truthy(accessToken) /\ Truthy(tokenExpiresAt) /\ now <= tokenExpiresAt - Buffer

\* getValidAccessToken, line 181: the cached access token is still valid
CacheValid ==
    Truthy(accessToken) /\ Truthy(tokenExpiresAt) /\ now < tokenExpiresAt - Buffer

\* the refresh token taken as valid until it expires, without the buffer
RefreshValidNoBuffer ==
    Truthy(refreshToken) /\ Truthy(refreshTokenExpiresAt)
        /\ now < refreshTokenExpiresAt

\* getValidAccessToken, line 186: the refresh token is still valid
RefreshValid ==
    Truthy(refreshToken) /\ Truthy(refreshTokenExpiresAt)
        /\ now < refreshTokenExpiresAt - Buffer

\* the check of line 42 without the username
CredentialsMissingNoUsername ==
    \/ "IR_OAUTH_SECRET" \notin env
    \/ "IR_PASSWORD" \notin env

\* getInitialToken, line 42
CredentialsMissing ==
    \/ "IR_OAUTH_SECRET" \notin env
    \/ "IR_USERNAME" \notin env
    \/ "IR_PASSWORD" \notin env

\* response.ok
Ok(resp) == resp.status >= 200 /\ resp.status <= 299

\* getInitialToken, lines 70-75: the response is a rate limit
IsRateLimit(resp) ==
    /\ resp.status = 400 \/ resp.status = 401
    /\ resp.marker \/ resp.retryAfter # noHeader

\* getInitialToken, line 76
WaitTime(resp) == IF resp.retryAfter # noHeader THEN resp.retryAfter ELSE "unknown"

\* getInitialToken storing whatever a 2xx response holds, decodable or not
InitialErrorNoDecode(resp) ==
    IF ~resp.arrived THEN Err("TransportError", "", 0)
    ELSE IF resp.status = 400 \/ resp.status = 401
         THEN IF IsRateLimit(resp)
              THEN Err("RateLimited", WaitTime(resp), 0)
              ELSE Err("RequestFailed", "", resp.status)
    ELSE IF ~Ok(resp) THEN Err("RequestFailed", "", resp.status)
    ELSE NoError

\* getInitialToken, lines 61-90: the error the exchange ends with, NoError on success
InitialError(resp) ==
    IF ~resp.arrived THEN Err("TransportError", "", 0)
    ELSE IF resp.status = 400 \/ resp.status = 401
         THEN IF IsRateLimit(resp)
              THEN Err("RateLimited", WaitTime(resp), 0)
              ELSE Err("RequestFailed", "", resp.status)
    ELSE IF ~Ok(resp) THEN Err("RequestFailed", "", resp.status)
    ELSE IF ~resp.decodable THEN Err("DecodeError", "", 0)
    ELSE NoError

\* refreshAccessToken, lines 141-157: how the refresh exchange ends; every
\* failure status is logged and handled alike, whatever the body and headers
RefreshError(resp) ==
    IF ~resp.arrived THEN Err("TransportError", "", 0)
    ELSE IF ~Ok(resp) THEN Err("RequestFailed", "", resp.status)
    ELSE IF ~resp.decodable THEN Err("DecodeError", "", 0)
    ELSE NoError

\* lines 95 and 162: Date.now() + data.expires_in * 1000
AccessExpiry(data, t) ==
    IF data.expires_in = undefined THEN NaN ELSE t + data.expires_in * MsPerSec

\* lines 96 and 163
RefreshExpiry(data, t) ==
    IF data.refresh_token_expires_in \notin {undefined, 0}
    THEN t + data.refresh_token_expires_in * MsPerSec
    ELSE null

\* a grant stored without rotating a refresh token that is already cached
StoreKeepRefresh(data, t) ==
    <<data.access_token,
      IF Truthy(refreshToken) THEN refreshToken ELSE data.refresh_token,
      AccessExpiry(data, t), RefreshExpiry(data, t)>>

\* lines 93-96 and 160-163: the token storage after a successful grant
Store(data, t) ==
    <<data.access_token, data.refresh_token, AccessExpiry(data, t), RefreshExpiry(data, t)>>

\* the spread of lines 204-207 in the other order: the caller's headers win
MergeHeadersCallerWins(h, token) ==
    [k \in DOMAIN h \cup {"Authorization"} |->
        IF k \in DOMAIN h THEN h[k] ELSE <<"Bearer", token>>]

\* authenticatedFetch, lines 204-207: the headers of the API request
MergeHeaders(h, token) ==
    [k \in DOMAIN h \cup {"Authorization"} |->
        IF k = "Authorization" THEN <<"Bearer", token>> ELSE h[k]]

\* the call ends by throwing e
Raised(rec, e) == [rec EXCEPT !.pc = "done", !.outcome = "raised", !.error = e]

\* token acquisition is over: getValidAccessToken returns token to its caller
\* (lines 182, 192), authenticatedFetch goes on to its API request (lines
\* 202-212), initializeOAuth returns nothing (lines 221-222)
Returned(rec, token) ==
    IF rec.op = "authenticatedFetch"
    THEN [rec EXCEPT !.pc = "api", !.value = token, !.nApi = @ + 1,
                     !.request = MergeHeaders(rec.headers, token)]
    ELSE IF rec.op = "initializeOAuth"
    THEN [rec EXCEPT !.pc = "done", !.outcome = "returned", !.value = undefined]
    ELSE [rec EXCEPT !.pc = "done", !.outcome = "returned", !.value = token]

\* getInitialToken up to its fetch (lines 36-67), called where a failure
\* propagates to the caller: lines 171, 189 and 221
FinalInitial(rec) ==
    IF CredentialsMissing
    THEN Raised(rec, Err("ConfigurationError", "", 0))
    ELSE [rec EXCEPT !.pc = "initial", !.nInitial = @ + 1]

\* getInitialToken up to its fetch, called inside the try of refreshAccessToken
\* (lines 125 and 154): what it throws is caught at line 168, and line 171
\* calls getInitialToken again
GuardedInitial(rec) ==
    IF CredentialsMissing
    THEN FinalInitial(rec)
    ELSE [rec EXCEPT !.pc = "fallback", !.nInitial = @ + 1]

\* the refresh exchange carrying the refresh token of the first grant
CarriedFirstToken == IF Truthy(refreshToken) THEN 1 ELSE refreshToken

\* refreshAccessToken, line 137: the refresh token the exchange carries
CarriedRefreshToken == refreshToken

\* refreshAccessToken up to its fetch, lines 122-147
BeginRefresh(rec) ==
    IF ~Truthy(refreshToken)
    THEN GuardedInitial(rec)
    ELSE [rec EXCEPT !.pc = "refresh", !.nRefresh = @ + 1]

\* getValidAccessToken deciding on the refresh expiry alone and issuing the
\* refresh exchange itself
BeginGetExpiryOnly(rec) ==
    IF CacheValid THEN Returned(rec, accessToken)
    ELSE IF Truthy(refreshTokenExpiresAt) /\ now < refreshTokenExpiresAt - Buffer
    THEN [rec EXCEPT !.pc = "refresh", !.nRefresh = @ + 1]
    ELSE FinalInitial(rec)

\* getValidAccessToken up to its first await or its return, lines 179-190
BeginGet(rec) ==
    IF CacheValid THEN Returned(rec, accessToken)
    ELSE IF RefreshValid THEN BeginRefresh(rec)
    ELSE FinalInitial(rec)

\* refreshAccessToken trying the refresh exchange a second time
AfterFailedRefreshRetry(rec, resp) ==
    IF rec.nRefresh < 2
    THEN [rec EXCEPT !.pc = "refresh", !.nRefresh = @ + 1]
    ELSE FinalInitial(rec)

\* refreshAccessToken after a failed exchange: a failure status takes line 154,
\* an exception (no response, undecodable body) the catch of line 168
AfterFailedRefresh(rec, resp) ==
    IF resp.arrived /\ ~Ok(resp) THEN GuardedInitial(rec) ELSE FinalInitial(rec)

\* getValidAccessToken swallowing the error and returning what is cached
AfterFailedInitialSwallow(rec, e) ==
    IF rec.pc = "fallback" THEN FinalInitial(rec) ELSE Returned(rec, accessToken)

\* getInitialToken after a failed exchange: the error is thrown (line 113); in
\* the try of refreshAccessToken it is caught and line 171 runs
AfterFailedInitial(rec, e) ==
    IF rec.pc = "fallback" THEN FinalInitial(rec) ELSE Raised(rec, e)

\* ------------------------------------------------------------ bookkeeping
\* the exchange a step issued
Issue(old, new) ==
    IF new.nRefresh > old.nRefresh THEN "refresh"
    ELSE IF new.nInitial > old.nInitial THEN "initial"
    ELSE IF new.nApi > old.nApi THEN "api"
    ELSE "none"

\* getValidAccessToken returned in the step
Ret(old, new) ==
    \/ new.op = "getValidAccessToken" /\ new.outcome = "returned"
    \/ new.op = "authenticatedFetch" /\ old.pc # "api" /\ new.pc = "api"

\* the slot of a finished call is free again; the step is recorded
Step(c, kind, resp, e, old, new) ==
    /\ masked' = masked
    /\ carried' = IF Issue(old, new) = "refresh"
                  THEN carried \cup {CarriedRefreshToken} ELSE carried
    /\ started' = IF old.pc = "idle" THEN started + 1 ELSE started
    /\ calls' = [calls EXCEPT ![c] = IF new.pc = "done" THEN IdleCall ELSE new]
    /\ event' = [kind |-> kind, call |-> c, resp |-> resp, class |-> e, rec |-> new,
                 ret |-> Ret(old, new),
                 token |-> IF Ret(old, new) THEN new.value ELSE null,
                 issue |-> Issue(old, new),
                 sent |-> IF Issue(old, new) = "refresh" THEN CarriedRefreshToken ELSE null,
                 resent |-> Issue(old, new) = "refresh" /\ CarriedRefreshToken \in carried]

\* a new call takes the first free slot
CanCall(c) ==
    /\ started < MaxCalls
    /\ calls[c].pc = "idle"
    /\ \A d \in Calls : d < c => calls[d].pc # "idle"

\* ------------------------------------------------------------ the actions
Init ==
    /\ accessToken = null
    /\ refreshToken = null
    /\ tokenExpiresAt = null
    /\ refreshTokenExpiresAt = null
    /\ now = StartTime
    /\ env \in SUBSET RequiredVars
    /\ calls = [c \in Calls |-> IdleCall]
    /\ issued = 0
    /\ started = 0
    /\ retired = {}
    /\ masked = NoMask
    /\ carried = {}
    /\ event = NoEvent

\* a caller calls getValidAccessToken()
GetValidAccessToken(c) ==
    /\ CanCall(c)
    /\ LET old == NewCall("getValidAccessToken", NoHeaders)
       IN  Step(c, "getValidAccessToken", NoResponse, NoError, old, BeginGet(old))
    /\ UNCHANGED <<tokenState, now, env, issued, retired>>

\* a caller calls authenticatedFetch(url, options)
AuthenticatedFetch(c, h) ==
    /\ CanCall(c)
    /\ LET old == NewCall("authenticatedFetch", h)
       IN  Step(c, "authenticatedFetch", NoResponse, NoError, old, BeginGet(old))
    /\ UNCHANGED <<tokenState, now, env, issued, retired>>

\* a caller calls initializeOAuth()
InitializeOAuth(c) ==
    /\ CanCall(c)
    /\ LET old == NewCall("initializeOAuth", NoHeaders)
       IN  Step(c, "initializeOAuth", NoResponse, NoError, old, FinalInitial(old))
    /\ UNCHANGED <<tokenState, now, env, issued, retired>>

\* the responses the token endpoint may give next
TokenResponses ==
    {TransportError, UndecodableResponse} \cup FailResponses
        \cup (IF issued < MaxGrants THEN GrantResponses(issued + 1) ELSE {})

\* a successful grant is stored at the time its body has been decoded
StoreGrant(resp, byRefresh) ==
    /\ accessToken' = Store(resp.data, now)[1]
    /\ refreshToken' = Store(resp.data, now)[2]
    /\ tokenExpiresAt' = Store(resp.data, now)[3]
    /\ refreshTokenExpiresAt' = Store(resp.data, now)[4]
    /\ issued' = issued + 1
    /\ retired' = IF byRefresh /\ refreshToken' # refreshToken
                  THEN retired \cup {refreshToken} ELSE retired

\* the refresh exchange of call c ends with resp, lines 149-172
RefreshResponse(c, resp) ==
    /\ calls[c].pc = "refresh"
    /\ resp \in TokenResponses
    /\ LET old == [calls[c] EXCEPT !.plainFail =
                      IF resp.status \in {400, 401} /\ ~IsRateLimit(resp)
                      THEN resp.status ELSE 0]
           e == RefreshError(resp)
       IN  IF e = NoError
           THEN /\ StoreGrant(resp, TRUE)
                /\ Step(c, "RefreshResponse", resp, e, old, Returned(old, accessToken'))
           ELSE /\ Step(c, "RefreshResponse", resp, e, old, AfterFailedRefresh(old, resp))
                /\ UNCHANGED <<tokenState, issued, retired>>
    /\ UNCHANGED <<now, env>>

\* the initial-grant exchange of call c ends with resp, lines 69-114
InitialResponse(c, resp) ==
    /\ calls[c].pc \in {"fallback", "initial"}
    /\ resp \in TokenResponses
    /\ LET old == calls[c]
           e == InitialError(resp)
       IN  IF e = NoError
           THEN /\ StoreGrant(resp, FALSE)
                /\ Step(c, "InitialResponse", resp, e, old, Returned(old, accessToken'))
           ELSE /\ Step(c, "InitialResponse", resp, e, old, AfterFailedInitial(old, e))
                /\ UNCHANGED <<tokenState, issued, retired>>
    /\ UNCHANGED <<now, env>>

ApiStatus == {200, 401}

\* the API request of authenticatedFetch ends: the response goes to the caller
ApiResponse(c, status) ==
    /\ calls[c].pc = "api"
    /\ Step(c, "ApiResponse", [NoResponse EXCEPT !.arrived = TRUE, !.status = status],
            NoError, calls[c],
            [calls[c] EXCEPT !.pc = "done", !.outcome = "returned"])
    /\ UNCHANGED <<tokenState, now, env, issued, retired>>

\* time passes
Tick ==
    /\ now < StartTime + MaxTicks * TickMs
    /\ now' = now + TickMs
    /\ event' = [NoEvent EXCEPT !.kind = "Tick"]
    /\ UNCHANGED <<tokenState, env, calls, issued, started, retired, masked, carried>>

\* the token manager: its callers call getValidAccessToken and initializeOAuth
Next ==
    \/ \E c \in Calls : GetValidAccessToken(c)
    \/ \E c \in Calls : InitializeOAuth(c)
    \/ \E c \in Calls, resp \in TokenResponses : RefreshResponse(c, resp)
    \/ \E c \in Calls, resp \in TokenResponses : InitialResponse(c, resp)
    \/ Tick

Spec == Init /\ [][Next]_vars

\* the facade: its callers call authenticatedFetch, which calls
\* getValidAccessToken, and initializeOAuth
FetchNext ==
    \/ \E c \in Calls, h \in CallerHeaders : AuthenticatedFetch(c, h)
    \/ \E c \in Calls : InitializeOAuth(c)
    \/ \E c \in Calls, resp \in TokenResponses : RefreshResponse(c, resp)
    \/ \E c \in Calls, resp \in TokenResponses : InitialResponse(c, resp)
    \/ \E c \in Calls, s \in ApiStatus : ApiResponse(c, s)
    \/ Tick

FetchSpec == Init /\ [][FetchNext]_vars

\* the exchange call c waits for ends
Respond(c) ==
    \E resp \in TokenResponses : RefreshResponse(c, resp) \/ InitialResponse(c, resp)

\* the token manager at one instant: whether a call completes does not depend
\* on the time that passes meanwhile
FairNext ==
    \/ \E c \in Calls : GetValidAccessToken(c)
    \/ \E c \in Calls : InitializeOAuth(c)
    \/ \E c \in Calls, resp \in TokenResponses : RefreshResponse(c, resp)
    \/ \E c \in Calls, resp \in TokenResponses : InitialResponse(c, resp)

\* every pending exchange ends: fetch() settles its promise
FairSpec == Init /\ [][FairNext]_vars /\ \A c \in Calls : WF_vars(Respond(c))

\* a caller calls maskSecret(secret, id)
MaskSecret(secret, id) ==
    /\ masked' = [secret |-> secret, id |-> id, digest |-> maskSecret(secret, id),
                  called |-> TRUE]
    /\ UNCHANGED <<tokenState, now, env, calls, issued, started, retired, carried, event>>

\* the secret masker alone: it has no state and touches none
MaskNext == \E secret \in Strings, id \in Strings : MaskSecret(secret, id)

MaskSpec == Init /\ [][MaskNext]_vars

\* ============================================================ properties
\* a timestamp that is recorded (neither null nor NaN)
Recorded(t) == t \notin {null, NaN}

\* a token that is cached (neither null nor undefined)
Cached(t) == t \notin {null, undefined}

\* the step processed the response of a token exchange
ExchangeEnded == event.kind \in {"RefreshResponse", "InitialResponse"}

\* the call of the step has ended
Ended == event.rec.pc = "done"

\* C1: whenever getValidAccessToken returns a token (cache hit, after a
\* refresh or after an initial grant, whatever lifetime the server gave), the
\* time of the return is strictly less than accessExpiresAt minus 30 seconds.
C1_ReturnsUnexpired ==
    event.ret => Recorded(tokenExpiresAt) /\ now < tokenExpiresAt - Buffer

\* the response is a rate limit as the classification defines it: status 400
\* or 401 with the marker in the body or a Retry-After header
RateLimitedResponse(resp) ==
    resp.arrived /\ resp.status \in {400, 401}
        /\ (resp.marker \/ resp.retryAfter # noHeader)

\* C2: when an exchange, refresh or initial, is classified RateLimited, the
\* call that issued it issues no further exchange and ends by raising the
\* RateLimited error.
C2_RateLimitedPropagates ==
    (ExchangeEnded /\ RateLimitedResponse(event.resp))
        => /\ event.issue = "none"
           /\ Ended /\ event.rec.outcome = "raised"
           /\ event.rec.error.class = "RateLimited"

\* the cache-hit condition: a token is cached and now < accessExpiresAt - 30 s
Hit == Cached(accessToken) /\ Recorded(tokenExpiresAt) /\ now < tokenExpiresAt - Buffer

\* C3: getValidAccessToken returns the cached access token with no exchange
\* and with the token state unchanged if and only if a token is cached and
\* now < accessExpiresAt - 30 s (strict); a call that returns otherwise has
\* issued an exchange.
C3_CacheHitIff ==
    [][ /\ event'.kind = "getValidAccessToken" =>
              ( ( /\ event'.ret /\ event'.token = accessToken
                  /\ event'.issue = "none" /\ event'.rec.nRefresh + event'.rec.nInitial = 0
                  /\ tokenState' = tokenState )
                <=> Hit )
        /\ (event'.ret /\ ExchangeEnded')
              => event'.rec.nRefresh + event'.rec.nInitial >= 1 ]_vars

\* a hit with exactly 31 seconds left, by a call made after the acquisition
C3_Witness ==
    /\ event.kind = "getValidAccessToken" /\ event.ret /\ event.issue = "none"
    /\ tokenExpiresAt - now = 31 * MsPerSec
    /\ event.token = accessToken /\ started >= 2

\* C4: if the refresh exchange of a getValidAccessToken call returns a 401 that
\* is no rate limit, that call issues exactly one initial-grant exchange, and
\* when that exchange succeeds the token returned and the token state are the
\* ones of its response.
C4_OneFallbackExchange ==
    event.rec.plainFail = 401
        => /\ event.rec.nInitial = 1
           /\ (event.kind = "InitialResponse" /\ event.ret)
                 => /\ event.token = event.resp.data.access_token
                    /\ accessToken = event.resp.data.access_token
                    /\ refreshToken = event.resp.data.refresh_token

\* the step processed a successful grant: a 2xx response with a decodable body
GrantProcessed ==
    ExchangeEnded /\ event.resp.arrived /\ event.resp.decodable
        /\ event.resp.status \in 200..299

\* C5: the token state changes only in the step that processes a successful
\* initial-grant or refresh-grant response; every failed exchange and every
\* configuration error leaves the four fields as they were.
C5_OnlySuccessStores ==
    [][ /\ tokenState' # tokenState => GrantProcessed'
        /\ (ExchangeEnded' /\ ~GrantProcessed') => tokenState' = tokenState
        /\ event'.rec.error.class = "ConfigurationError" => tokenState' = tokenState
      ]_vars

\* an exchange has failed and the token cached before is still valid
C5_Witness ==
    /\ ExchangeEnded /\ ~GrantProcessed
    /\ event.rec.outcome = "raised"
    /\ Hit

\* C6: after a successful refresh has replaced refresh token R_old by another,
\* no refresh exchange issued afterwards carries R_old; every refresh exchange
\* carries the refresh token that is stored when the exchange is issued.
C6_RefreshCarriesCurrent ==
    event.issue = "refresh"
        => /\ event.sent = refreshToken
           /\ event.sent \notin retired

\* a refresh exchange is issued after a refresh has replaced a refresh token
C6_Witness ==
    /\ event.issue = "refresh"
    /\ retired # {}
    /\ event.sent = issued

\* a required credential is absent
CredentialAbsent == env # RequiredVars

\* C7: if a required credential (client secret, username, password) is absent
\* when the initial grant is attempted, the acquisition fails with a
\* configuration error, no exchange is issued and the token state is unchanged.
C7_MissingCredentials ==
    [][ (CredentialAbsent /\ event'.kind \in {"getValidAccessToken", "initializeOAuth",
                                              "authenticatedFetch"})
            => /\ event'.rec.pc = "done" /\ event'.rec.outcome = "raised"
               /\ event'.rec.error.class = "ConfigurationError"
               /\ event'.issue = "none"
               /\ event'.rec.nRefresh + event'.rec.nInitial = 0
               /\ tokenState' = tokenState ]_vars

\* a call has failed for the missing username alone
C7_Witness ==
    /\ env = RequiredVars \ {"IR_USERNAME"}
    /\ event.kind = "getValidAccessToken"
    /\ event.rec.error.class = "ConfigurationError"

\* the classification of a response: 2xx is a success; 400 or 401 with the
\* marker or a Retry-After header is RateLimited and carries the Retry-After
\* value, "unknown" without one; everything else is RequestFailed and carries
\* the status
Classification(resp) ==
    IF resp.status \in 200..299 THEN NoError
    ELSE IF RateLimitedResponse(resp)
    THEN Err("RateLimited",
             IF resp.retryAfter = noHeader THEN "unknown" ELSE resp.retryAfter, 0)
    ELSE Err("RequestFailed", "", resp.status)

\* C8: the response of an exchange, initial or refresh alike, is classified
\* Success (2xx), RateLimited (400/401 with marker or Retry-After; carries the
\* Retry-After value or "unknown") or RequestFailed (anything else; carries
\* the status).
C8_Classification ==
    (ExchangeEnded /\ event.resp.arrived
        /\ (event.resp.status \in 200..299 => event.resp.decodable))
        => event.class = Classification(event.resp)

\* C9 (safety part): a call that returns has had a cache hit or a successful
\* last exchange; a call whose last acquisition failed raises that failure.
CompletesRight ==
    Ended =>
        /\ event.rec.outcome \in {"returned", "raised"}
        /\ event.rec.outcome = "returned"
              => \/ event.kind = "getValidAccessToken" /\ event.issue = "none" /\ Hit
                 \/ GrantProcessed
        /\ event.rec.outcome = "raised"
              => \/ event.rec.error.class = "ConfigurationError" /\ event.issue = "none"
                 \/ /\ ExchangeEnded /\ ~GrantProcessed
                    /\ event.rec.error.class \in
                          {"RateLimited", "RequestFailed", "TransportError", "DecodeError"}
                    /\ event.resp.arrived /\ event.resp.status \notin 200..299
                          => event.rec.error = Classification(event.resp)

\* C9: if every exchange issued gets a response or an error, every call of
\* getValidAccessToken completes, by returning a token or by raising the
\* failure of the last acquisition it attempted; it never returns after all
\* the exchanges it issued have failed.
C9_Completes ==
    /\ \A c \in Calls : (calls[c].pc # "idle") ~> (calls[c].pc = "idle")
    /\ []CompletesRight

\* a call whose refresh and fallback exchanges all failed has raised
C9_Witness ==
    /\ Ended /\ event.rec.op = "getValidAccessToken"
    /\ event.rec.nRefresh = 1 /\ event.rec.nInitial >= 1
    /\ event.rec.outcome = "raised"

\* C10: authenticatedFetch issues exactly one API request per call, when
\* getValidAccessToken has returned, with the returned token as bearer
\* credential in place of any Authorization header of the caller and the other
\* headers of the caller kept; none when the acquisition raises; and the API
\* response, whatever its status, triggers no request and no exchange.
C10_OneRequest ==
    event.rec.op = "authenticatedFetch" =>
        /\ event.rec.nApi <= 1
        /\ event.issue = "api" <=> event.ret
        /\ event.issue = "api" =>
              /\ event.rec.request["Authorization"] = <<"Bearer", event.token>>
              /\ DOMAIN event.rec.request = DOMAIN event.rec.headers \cup {"Authorization"}
              /\ \A k \in DOMAIN event.rec.headers \ {"Authorization"} :
                    event.rec.request[k] = event.rec.headers[k]
        /\ event.rec.outcome = "raised" => event.rec.nApi = 0
        /\ event.rec.outcome = "returned" => event.rec.nApi = 1
        /\ event.kind = "ApiResponse" =>
              /\ event.issue = "none" /\ Ended /\ event.rec.outcome = "returned"
              /\ event.rec.nApi = 1

\* the API answered 401 to a request that carried a refreshed token
C10_Witness ==
    /\ event.kind = "ApiResponse" /\ event.resp.status = 401
    /\ event.rec.nRefresh = 1
    /\ event.rec.headers["Authorization"] = <<"Basic", 0>>
    /\ event.rec.request["Authorization"] = <<"Bearer", accessToken>>
    /\ Cached(accessToken)

\* the identifier as the masker is to see it: lower-cased and trimmed
Normalized(id) == Trim(ToLowerCase(id))

\* C11: mask is deterministic and depends on id only through its trimmed,
\* lower-cased form: mask(s, id) = mask(s, id') whenever the two normalize
\* alike; the secret is not normalized: another secret, be it only in case or
\* in surrounding whitespace, gives another digest.
C11_MaskNormalizesIdOnly ==
    masked.called =>
        /\ \A id \in Strings :
              Normalized(id) = Normalized(masked.id)
                  => maskSecret(masked.secret, id) = masked.digest
        /\ \A secret \in Strings :
              secret # masked.secret
                  => maskSecret(secret, masked.id) # masked.digest

\* mask(s, "A ") has been computed, with a secret that has a capital and a space
C11_Witness ==
    /\ masked.called
    /\ masked.id = <<"A", " ">>
    /\ masked.secret = <<"A", " ">>
    /\ masked.digest = maskSecret(masked.secret, <<"a">>)
    /\ masked.digest # maskSecret(<<"a">>, masked.id)

\* C12: a single getValidAccessToken call issues at most one refresh-grant and
\* at most one initial-grant exchange; when the fallback attempt after a failed
\* refresh fails, no further exchange is issued and the error propagates.
C12_SingleFallback ==
    /\ event.rec.nRefresh <= 1 /\ event.rec.nInitial <= 1
    /\ (event.kind = "InitialResponse" /\ ~GrantProcessed)
          => event.issue = "none" /\ Ended /\ event.rec.outcome = "raised"

\* the refresh token can be used: it is cached, its expiry is recorded and
\* now < refreshExpiresAt - 30 s
RefreshUsable ==
    Cached(refreshToken) /\ Recorded(refreshTokenExpiresAt)
        /\ now < refreshTokenExpiresAt - Buffer

\* C13: when the cached access token is absent or not valid under the buffer,
\* the first exchange getValidAccessToken issues is the refresh grant if and
\* only if a refresh token is cached, its expiry is recorded and
\* now < refreshExpiresAt - 30 s; in every other case it is the initial grant.
C13_FirstExchange ==
    [][ (event'.kind = "getValidAccessToken" /\ ~Hit)
            => /\ event'.issue = "refresh" <=> RefreshUsable
               /\ (~RefreshUsable /\ ~CredentialAbsent) => event'.issue = "initial"
               /\ event'.issue \in {"refresh", "initial"}
                     => event'.rec.nRefresh + event'.rec.nInitial = 1 ]_vars

\* a refresh token is cached without a recorded expiry, the access token is no
\* longer valid, and the call has issued the initial grant
C13_Witness ==
    /\ event.kind = "getValidAccessToken" /\ event.issue = "initial"
    /\ Cached(refreshToken) /\ refreshTokenExpiresAt = null
    /\ Cached(accessToken) /\ Recorded(tokenExpiresAt)

\* the times at which a grant may have been stored
GrantTimes == { StartTime + k * TickMs : k \in 0..MaxTicks }

\* the four fields are those of the grant body d processed at time t
FromGrant(d, t) ==
    /\ accessToken = d.access_token
    /\ refreshToken = d.refresh_token
    /\ tokenExpiresAt =
          IF d.expires_in = undefined THEN NaN ELSE t + d.expires_in * MsPerSec
    /\ refreshTokenExpiresAt =
          IF d.refresh_token_expires_in \in {undefined, 0} THEN null
          ELSE t + d.refresh_token_expires_in * MsPerSec

\* C14: in every reachable state, under any interleaving of calls and
\* responses, the four fields of the token state originate from one and the
\* same successful grant response, the last one processed: no state mixes the
\* fields of two responses.
C14_OneGrantOrigin ==
    \/ issued = 0 /\ tokenState = <<null, null, null, null>>
    \/ \E d \in GrantData(issued), t \in GrantTimes : t <= now /\ FromGrant(d, t)

\* a refresh response has replaced the first grant while another call is pending
C14_Witness ==
    /\ event.kind = "RefreshResponse" /\ GrantProcessed
    /\ issued = 2 /\ accessToken = 2 /\ refreshToken = 2
    /\ \E c \in Calls : calls[c].pc # "idle"

\* C15: in every reachable state the access token is present if and only if
\* its expiry timestamp is present, also after a 2xx response that omits a
\* token field or a lifetime field.
C15_TokenIffExpiry == Cached(accessToken) <=> Recorded(tokenExpiresAt)

\* C16: no refresh-grant exchange is issued while no refresh token is cached:
\* in a state where refreshToken is absent, the exchange an operation issues
\* next is the initial grant.
C16_NoRefreshWithoutToken ==
    [][ (~Cached(refreshToken) /\ event'.issue \in {"refresh", "initial"})
            => event'.issue = "initial" /\ event'.sent = null ]_vars

\* the refresh token is absent although its expiry is recorded and not
\* reached, and getValidAccessToken has issued the initial grant
C16_Witness ==
    /\ event.kind = "getValidAccessToken" /\ event.issue = "initial"
    /\ refreshToken = undefined
    /\ Recorded(refreshTokenExpiresAt) /\ now < refreshTokenExpiresAt - Buffer

\* the calls that wait for a grant exchange
InFlight == { c \in Calls : calls[c].pc \in {"refresh", "fallback", "initial"} }

\* C17 as claimed: at most one grant exchange is in flight at any time, and
\* no refresh token is carried by two refresh exchanges.
C17_SingleFlight ==
    /\ Cardinality(InFlight) <= 1
    /\ ~event.resent

\* C17 (amended): each call has one grant exchange in flight at a time and
\* issues at most one refresh exchange, so the grant exchanges in flight are
\* at most as many as the pending calls and a refresh token is carried twice
\* only by two different calls.
C17_OneRefreshPerCall ==
    /\ event.rec.nRefresh <= 1
    /\ \A c \in Calls : calls[c].nRefresh <= 1
    /\ \A c \in InFlight :
          /\ calls[c].pc = "refresh" => calls[c].nRefresh = 1 /\ calls[c].nInitial = 0
          /\ calls[c].pc # "refresh" => calls[c].nInitial >= 1
    /\ event.resent => started >= 2 /\ event.rec.nRefresh = 1

\* two calls that saw the same expired token both wait for a refresh exchange
\* that carries the same refresh token
C17_Witness ==
    /\ event.resent
    /\ \A c \in Calls : calls[c].pc = "refresh"
    /\ carried = {refreshToken}

====
